---- MODULE Spec2Model ----
(***************************************************************************)
(* The blockchain CLI of this repository, in its two variants:            *)
(*   "hash"   - src/unnamed/part_000 (blocks carry a SHA-256 hash only)     *)
(*   "signed" - src/index.ts (blocks are counter-signed by the arbiter)     *)
(* One process runs the menu loop over an in-memory chain and rewrites     *)
(* blockchain.json after every mutation.                                    *)
(***************************************************************************)
EXTENDS Integers, Sequences, FiniteSets, TLC

\* ------------------------------------------------------------- bounds
\* addBlock is not issued once the chain holds MaxLen blocks
MaxLen == 4
\* the clock advances by one with every command read; none is read at MaxTime
MaxTime == 5

\* payloads typed at the "Block Data: " / "New Block Data: " prompts
Data == {"a", "b"}

VARIABLES
    variant,     \* which source file runs: "hash" or "signed"
    keyDecodes,  \* whether createPublicKey accepts ARBITER_PUBLIC_KEY as pkcs1 DER
    blockchain,  \* const blockchain: Block[]
    file,        \* blockchain.json, as the array of JSON objects it holds
    verifier,    \* the module-level createVerify("RSA-SHA256") object
    pc,          \* position of the control flow: menu, signing, crashed, exited
    newBlock,    \* the block generateNextBlock is awaiting a signature for
    request,     \* digest of the signing request in flight
    now,         \* Date.now()
    out          \* what the last command wrote to the console

vars == <<variant, keyDecodes, blockchain, file, verifier, pc, newBlock, request, now, out>>

\* ------------------------------------------------------------- values
\* the JavaScript value undefined (no hex string or digest equals it)
Undefined == "<undefined>"

\* template-literal conversion `${v}` of a string-or-undefined value
Str(v) == IF v = Undefined THEN "undefined" ELSE v

\* the value undefined in the number field timestamp (Date.now() is never negative)
UndefinedTime == -1

\* template-literal conversion `${t}` of a number-or-undefined value
TimeStr(t) == IF t = UndefinedTime THEN "undefined" ELSE ToString(t)

\* createHash("sha256").update(s).digest("hex"): collision-free on the strings used
sha256(s) == "#" \o s \o ";"

\* The arbiter's RSA-SHA256 PKCS#1 v1.5 signature over message m (deterministic)
RsaSign(m) == "sig(" \o m \o ")"

\* verifier.verify(key, signature, "hex") over the data passed to update()
RsaVerify(m, signature) == signature = RsaSign(m)

NoBlock == [previousHash |-> "", timestamp |-> 0, data |-> "", hash |-> "", signature |-> Undefined]

\* ------------------------------------------------------- Number(input)
\* A number typed at the "Block Index: " prompt: an integer n, the non-integer
\* n + 0.5, or NaN (input that is not a number).
NumInt(n)  == [kind |-> "int",  n |-> n]
NumHalf(n) == [kind |-> "half", n |-> n]
NaN        == [kind |-> "nan",  n |-> 0]
NoIndex    == [kind |-> "none", n |-> 0]

IndexInputs == {NumInt(n) : n \in -1..MaxLen} \cup {NumHalf(0), NaN}

\* x < length, the guard of removeBlock and modifyBlock (false for NaN)
LessThanLength(x, length) ==
    CASE x.kind = "int"  -> x.n < length
      [] x.kind = "half" -> x.n < length
      [] OTHER           -> FALSE

\* x names a position of a chain of this length
IsPosition(x, length) == x.kind = "int" /\ 0 <= x.n /\ x.n < length

\* ToIntegerOrInfinity(x): truncation towards zero
ToInteger(x) ==
    CASE x.kind = "int"  -> x.n
      [] x.kind = "half" -> IF x.n >= 0 THEN x.n ELSE x.n + 1
      [] OTHER           -> 0

Max(a, b) == IF a >= b THEN a ELSE b
Min(a, b) == IF a <= b THEN a ELSE b

\* Array.prototype.splice(start, 1) on a sequence (positions 0-based)
Splice1(chain, x) ==
    LET len == Len(chain)
        rel == ToInteger(x)
        start == IF rel < 0 THEN Max(len + rel, 0) ELSE Min(rel, len)
        count == Min(1, len - start)
    IN  [i \in 1..(len - count) |-> IF i <= start THEN chain[i] ELSE chain[i + count]]

\* ------------------------------------------------------------- Block
\* calculateHash: the digest of the concatenated fields, without delimiters
calculateHash(block) ==
    IF variant = "hash"
    THEN sha256(Str(block.previousHash) \o TimeStr(block.timestamp) \o Str(block.data))
    ELSE sha256(Str(block.previousHash) \o TimeStr(block.timestamp) \o Str(block.data)
                \o Str(block.signature))

\* mutant of Block: the constructor computes the hash even when one is supplied
BlockRehash(previousHash, timestamp, data, hash, signature) ==
    LET this == [previousHash |-> previousHash, timestamp |-> timestamp, data |-> data,
                 hash |-> Undefined, signature |-> Undefined]
    IN  [this EXCEPT !.hash = calculateHash(this),
                     !.signature = IF variant = "hash" THEN Undefined ELSE signature]

\* new Block(...): hash ?? calculateHash(this) runs before this.signature is set
Block(previousHash, timestamp, data, hash, signature) ==
    LET this == [previousHash |-> previousHash, timestamp |-> timestamp, data |-> data,
                 hash |-> Undefined, signature |-> Undefined]
    IN  [this EXCEPT !.hash = IF hash = Undefined THEN calculateHash(this) ELSE hash,
                     !.signature = IF variant = "hash" THEN Undefined ELSE signature]

\* block.isPreviousBlock(prev)
isPreviousBlock(block, prev) == prev.hash = block.previousHash

\* previousHash of the genesis block
Sentinel == IF variant = "hash" THEN "0" ELSE ""

createGenesisBlock(t) == Block(Sentinel, t, "Genesis", Undefined, Undefined)

\* mutant of generateNextBlock: links to the recomputed hash of previousBlock
\* instead of its stored hash
generateNextBlockRecomputed(previousBlock, blockData, t) ==
    LET this == [previousHash |-> calculateHash(previousBlock), timestamp |-> t,
                 data |-> blockData, hash |-> Undefined, signature |-> Undefined]
    IN  [this EXCEPT !.hash = calculateHash(this)]

\* the first statements of generateNextBlock: the unsigned successor of previousBlock
generateNextBlock(previousBlock, blockData, t) ==
    Block(previousBlock.hash, t, blockData, Undefined, Undefined)

\* the string isVerified passes to verifier.update
VerifiedPayload(block) ==
    Str(block.previousHash) \o TimeStr(block.timestamp) \o Str(block.data)
        \o Str(block.signature)

NoError == "none"

\* get isVerified of the signed variant, on the shared verifier in state v:
\* update() throws once verify() has run; createPublicKey throws if the key does not
\* decode; verify() throws on an undefined signature; otherwise verify() finalises
\* the verifier and returns the RSA check.
isVerifiedSigned(block, v) ==
    IF v = "finalized"
    THEN [error |-> "isVerified: verifier.update after verify", value |-> FALSE, verifier |-> v]
    ELSE IF ~keyDecodes
    THEN [error |-> "isVerified: createPublicKey", value |-> FALSE, verifier |-> v]
    ELSE IF block.signature = Undefined
    THEN [error |-> "isVerified: verify(undefined signature)", value |-> FALSE, verifier |-> v]
    ELSE [error |-> NoError, value |-> RsaVerify(VerifiedPayload(block), block.signature),
          verifier |-> "finalized"]

\* get isVerified of the hash-only variant (never called by printBlockchain)
isVerifiedHash(block) == calculateHash(block) = block.hash

\* ------------------------------------------------------ printBlockchain
\* the condition of the "confirmed" branch for block i (1-based), with && short-circuit
Check(chain, i, v) ==
    IF ~isPreviousBlock(chain[i], chain[i - 1])
    THEN [error |-> NoError, value |-> FALSE, verifier |-> v]
    ELSE IF variant = "hash"
    THEN [error |-> NoError, value |-> TRUE, verifier |-> v]
    ELSE isVerifiedSigned(chain[i], v)

\* mutant of LatchAfter: the "invalid" branch forgets errorAfterUnverified = true
LatchAfterNotSet(errorAfterUnverified, label) == errorAfterUnverified

\* errorAfterUnverified after a block has been given this label
LatchAfter(errorAfterUnverified, label) == errorAfterUnverified \/ label = "invalid"

RECURSIVE Scan(_, _, _, _, _)
Scan(chain, i, errorAfterUnverified, v, labels) ==
    IF i > Len(chain)
    THEN [labels |-> labels, verifier |-> v, error |-> NoError]
    ELSE IF i = 1
    THEN Scan(chain, i + 1, errorAfterUnverified, v, Append(labels, "genesis"))
    ELSE IF errorAfterUnverified
    THEN Scan(chain, i + 1, errorAfterUnverified, v, Append(labels, "above invalid"))
    ELSE LET c == Check(chain, i, v)
             label == IF c.value THEN "confirmed" ELSE "invalid"
         IN  IF c.error # NoError
             THEN [labels |-> labels, verifier |-> c.verifier, error |-> c.error]
             ELSE Scan(chain, i + 1, LatchAfter(errorAfterUnverified, label),
                       c.verifier, Append(labels, label))

\* printBlockchain(blockchain): the labels printed, the verifier left behind and
\* the exception that ended the scan, if any
printBlockchain(chain, v) == Scan(chain, 1, FALSE, v, <<>>)

\* ------------------------------------------------------------ the store
\* the properties of a Block that hold a value
Defined(block) ==
    {k \in {"previousHash", "data", "hash", "signature"} : block[k] # Undefined}
    \cup (IF block.timestamp # UndefinedTime THEN {"timestamp"} ELSE {})

\* JSON.stringify of one Block: an undefined property is left out
ToJson(block) == [k \in Defined(block) |-> block[k]]

\* saveBlockchain: the whole chain replaces the file
saveBlockchain(chain) == [i \in 1..Len(chain) |-> ToJson(chain[i])]

\* data.f of a parsed JSON object: undefined when the property is absent
Field(json, f) == IF f \in DOMAIN json THEN json[f] ELSE Undefined

\* data.timestamp of a parsed JSON object
TimeField(json) == IF "timestamp" \in DOMAIN json THEN json.timestamp ELSE UndefinedTime

\* loadBlockchain when blockchain.json exists: no field is validated
loadBlockchain(f) ==
    [i \in 1..Len(f) |->
        Block(Field(f[i], "previousHash"), TimeField(f[i]), Field(f[i], "data"),
              Field(f[i], "hash"), Field(f[i], "signature"))]

\* ------------------------------------------------------------ console
\* what one command printed: the command, the index it was given, the labels
\* printBlockchain wrote, and its closing report (or the uncaught exception)
Output(cmd, index, labels, report) ==
    [cmd |-> cmd, index |-> index, labels |-> labels, report |-> report]

\* an exception no handler catches: the rejection leaves loop() and ends the run
Crashed == "crashed"

\* ------------------------------------------------------------ Init
\* first run: blockchain.json does not exist, loadBlockchain seeds and saves genesis
Init ==
    /\ variant \in {"hash", "signed"}
    /\ keyDecodes \in (IF variant = "signed" THEN BOOLEAN ELSE {FALSE})
    /\ now = 0
    /\ blockchain = <<createGenesisBlock(0)>>
    /\ file = saveBlockchain(blockchain)
    /\ verifier = "open"
    /\ pc = "menu"
    /\ newBlock = NoBlock
    /\ request = ""
    /\ out = Output("load", NoIndex, <<>>, "ok")

\* mutant of ReadChoice: main() does not await CLI.addBlock, so the menu is read
\* while the signing request is in flight
ReadChoiceNoAwait ==
    /\ pc \in {"menu", "signing"}
    /\ now < MaxTime
    /\ now' = now + 1

\* main() reads a choice: the clock has moved on by the time the command runs
ReadChoice ==
    /\ pc = "menu"
    /\ now < MaxTime
    /\ now' = now + 1

\* case 1: printBlockchain(blockchain)
View ==
    /\ ReadChoice
    /\ LET r == printBlockchain(blockchain, verifier)
       IN  /\ verifier' = r.verifier
           /\ pc' = IF r.error = NoError THEN "menu" ELSE Crashed
           /\ out' = Output("view", NoIndex, r.labels,
                            IF r.error = NoError THEN "ok" ELSE r.error)
    /\ UNCHANGED <<variant, keyDecodes, blockchain, file, newBlock, request>>

\* case 2, hash-only variant: CLI.addBlock runs to completion
AddBlock(blockData) ==
    /\ ReadChoice
    /\ variant = "hash"
    /\ Len(blockchain) < MaxLen
    /\ IF Len(blockchain) = 0
       THEN /\ pc' = Crashed
            /\ out' = Output("add", NoIndex, <<>>, "generateNextBlock: previousBlock undefined")
            /\ UNCHANGED <<blockchain, file>>
       ELSE /\ blockchain' = Append(blockchain,
                                generateNextBlock(blockchain[Len(blockchain)], blockData, now'))
            /\ file' = saveBlockchain(blockchain')
            /\ out' = Output("add", NoIndex, <<>>, "Block added.")
            /\ UNCHANGED pc
    /\ UNCHANGED <<variant, keyDecodes, verifier, newBlock, request>>

\* case 2, signed variant, up to the await in Block.sign: the block is built on
\* blockchain.at(-1) and its digest is sent to the arbiter
AddBlockRequest(blockData) ==
    /\ ReadChoice
    /\ variant = "signed"
    /\ Len(blockchain) < MaxLen
    /\ IF Len(blockchain) = 0
       THEN /\ pc' = Crashed
            /\ out' = Output("add", NoIndex, <<>>, "generateNextBlock: previousBlock undefined")
            /\ UNCHANGED <<newBlock, request>>
       ELSE /\ newBlock' = generateNextBlock(blockchain[Len(blockchain)], blockData, now')
            /\ request' = calculateHash(newBlock')
            /\ pc' = "signing"
            /\ out' = Output("add", NoIndex, <<>>, "awaiting signature")
    /\ UNCHANGED <<variant, keyDecodes, blockchain, file, verifier>>

\* what comes back from fetch: a rejection, or an HTTP response (2xx or not) whose
\* body is not JSON, lacks timeStampToken, lacks timeStampToken.signature, or
\* carries the arbiter's signature over the digest
Responses ==
    {[kind |-> "reject", ok |-> FALSE]}
    \cup [kind : {"notjson", "notoken", "nosignature", "signed"}, ok : BOOLEAN]

\* the rest of Block.sign and CLI.addBlock once fetch settles
AddBlockResponse(resp) ==
    /\ pc = "signing"
    /\ IF resp.kind \in {"reject", "notjson", "notoken"}
       THEN /\ pc' = Crashed
            /\ out' = Output("add", NoIndex, <<>>, "sign: " \o resp.kind)
            /\ UNCHANGED <<blockchain, file>>
       ELSE /\ blockchain' = Append(blockchain,
                                [newBlock EXCEPT !.signature =
                                    IF resp.kind = "signed" THEN RsaSign(request)
                                    ELSE Undefined])
            /\ file' = saveBlockchain(blockchain')
            /\ pc' = "menu"
            /\ out' = Output("add", NoIndex, <<>>, "Block added.")
    /\ newBlock' = NoBlock
    /\ request' = ""
    /\ UNCHANGED <<variant, keyDecodes, verifier, now>>

\* mutant of RemoveBlock: the splice is not followed by saveBlockchain
RemoveBlockNoSave(blockIndex) ==
    /\ ReadChoice
    /\ IF LessThanLength(blockIndex, Len(blockchain))
       THEN /\ blockchain' = Splice1(blockchain, blockIndex)
            /\ out' = Output("remove", blockIndex, <<>>, "removed.")
       ELSE /\ out' = Output("remove", blockIndex, <<>>, "Invalid index.")
            /\ UNCHANGED blockchain
    /\ UNCHANGED <<variant, keyDecodes, file, verifier, pc, newBlock, request>>

\* case 3: CLI.removeBlock
RemoveBlock(blockIndex) ==
    /\ ReadChoice
    /\ IF LessThanLength(blockIndex, Len(blockchain))
       THEN /\ blockchain' = Splice1(blockchain, blockIndex)
            /\ file' = saveBlockchain(blockchain')
            /\ out' = Output("remove", blockIndex, <<>>, "removed.")
       ELSE /\ out' = Output("remove", blockIndex, <<>>, "Invalid index.")
            /\ UNCHANGED <<blockchain, file>>
    /\ UNCHANGED <<variant, keyDecodes, verifier, pc, newBlock, request>>

\* mutant of ModifyBlock: the edit also recomputes the block's hash
ModifyBlockRehash(blockIndex, newMessage) ==
    /\ ReadChoice
    /\ IF LessThanLength(blockIndex, Len(blockchain))
       THEN IF IsPosition(blockIndex, Len(blockchain))
            THEN /\ LET edited == [blockchain[blockIndex.n + 1] EXCEPT !.data = newMessage]
                    IN  blockchain' = [blockchain EXCEPT ![blockIndex.n + 1] =
                                          [edited EXCEPT !.hash = calculateHash(edited)]]
                 /\ file' = saveBlockchain(blockchain')
                 /\ out' = Output("modify", blockIndex, <<>>, "modified.")
                 /\ UNCHANGED pc
            ELSE /\ pc' = Crashed
                 /\ out' = Output("modify", blockIndex, <<>>, "TypeError: set data of undefined")
                 /\ UNCHANGED <<blockchain, file>>
       ELSE /\ out' = Output("modify", blockIndex, <<>>, "Invalid index.")
            /\ UNCHANGED <<blockchain, file, pc>>
    /\ UNCHANGED <<variant, keyDecodes, verifier, newBlock, request>>

\* case 4: CLI.modifyBlock; blockchain[blockIndex] is undefined off the positions
ModifyBlock(blockIndex, newMessage) ==
    /\ ReadChoice
    /\ IF LessThanLength(blockIndex, Len(blockchain))
       THEN IF IsPosition(blockIndex, Len(blockchain))
            THEN /\ blockchain' = [blockchain EXCEPT ![blockIndex.n + 1].data = newMessage]
                 /\ file' = saveBlockchain(blockchain')
                 /\ out' = Output("modify", blockIndex, <<>>, "modified.")
                 /\ UNCHANGED pc
            ELSE /\ pc' = Crashed
                 /\ out' = Output("modify", blockIndex, <<>>, "TypeError: set data of undefined")
                 /\ UNCHANGED <<blockchain, file>>
       ELSE /\ out' = Output("modify", blockIndex, <<>>, "Invalid index.")
            /\ UNCHANGED <<blockchain, file, pc>>
    /\ UNCHANGED <<variant, keyDecodes, verifier, newBlock, request>>

\* case 5: process.exit()
Exit ==
    /\ ReadChoice
    /\ pc' = "exited"
    /\ out' = Output("exit", NoIndex, <<>>, "ok")
    /\ UNCHANGED <<variant, keyDecodes, blockchain, file, verifier, newBlock, request>>

\* default: any other choice
InvalidChoice ==
    /\ ReadChoice
    /\ out' = Output("other", NoIndex, <<>>, "Invalid choice.")
    /\ UNCHANGED <<variant, keyDecodes, blockchain, file, verifier, pc, newBlock, request>>

\* the program is started again after it ended: blockchain.json exists, so the
\* module-level statements load it and create a new verifier
Restart ==
    /\ pc \in {Crashed, "exited"}
    /\ now < MaxTime
    /\ now' = now + 1
    /\ blockchain' = loadBlockchain(file)
    /\ verifier' = "open"
    /\ pc' = "menu"
    /\ newBlock' = NoBlock
    /\ request' = ""
    /\ out' = Output("load", NoIndex, <<>>, "ok")
    /\ UNCHANGED <<variant, keyDecodes, file>>

Next ==
    \/ View
    \/ \E blockData \in Data : AddBlock(blockData)
    \/ \E blockData \in Data : AddBlockRequest(blockData)
    \/ \E resp \in Responses : AddBlockResponse(resp)
    \/ \E blockIndex \in IndexInputs : RemoveBlock(blockIndex)
    \/ \E blockIndex \in IndexInputs, newMessage \in Data : ModifyBlock(blockIndex, newMessage)
    \/ Exit
    \/ InvalidChoice
    \/ Restart

Spec == Init /\ [][Next]_vars

\* ------------------------------------------------ start on a stored file
\* a JSON object with property f deleted
Without(json, f) == [k \in DOMAIN json \ {f} |-> json[k]]

\* chains an earlier run can have left behind: genesis alone, or genesis and one
\* appended block (unsigned, or signed by the arbiter in the signed variant)
StoredChains ==
    LET g == createGenesisBlock(0)
    IN  {<<g>>}
        \cup {<<g, generateNextBlock(g, d, 1)>> : d \in Data}
        \cup (IF variant = "hash" THEN {}
              ELSE {<<g, [generateNextBlock(g, d, 1) EXCEPT
                            !.signature = RsaSign(generateNextBlock(g, d, 1).hash)]>> :
                        d \in Data})

\* what blockchain.json may hold when the program starts: a snapshot as written, or
\* one in which a property of one record has been deleted
StoredSnapshots ==
    UNION {{saveBlockchain(c)}
           \cup {[saveBlockchain(c) EXCEPT ![i] = Without(@, f)] :
                    i \in 1..Len(c), f \in {"previousHash", "timestamp", "data", "hash"}}
           : c \in StoredChains}

\* the program is not running and blockchain.json exists
InitStore ==
    /\ variant \in {"hash", "signed"}
    /\ keyDecodes \in (IF variant = "signed" THEN BOOLEAN ELSE {FALSE})
    /\ now = 1
    /\ file \in StoredSnapshots
    /\ blockchain = <<>>
    /\ verifier = "open"
    /\ pc = "exited"
    /\ newBlock = NoBlock
    /\ request = ""
    /\ out = Output("exit", NoIndex, <<>>, "ok")

SpecStore == InitStore /\ [][Next]_vars

\* ===================================================================
\* Properties
\* ===================================================================
Last(chain) == chain[Len(chain)]

\* the step reads a menu choice and runs the command cmd
Runs(cmd) == pc = "menu" /\ now' # now /\ out'.cmd = cmd

\* the chain is one that successful addBlock commands alone produce from a fresh
\* genesis: block 0 is the untouched genesis block, every later block names its
\* predecessor's stored hash and still has the fields its hash was computed from
AppendBuilt(chain) ==
    /\ Len(chain) >= 1
    /\ chain[1].previousHash = Sentinel
    /\ chain[1].data = "Genesis"
    /\ chain[1].signature = Undefined
    /\ \A i \in 1..Len(chain) :
          /\ chain[i].hash = calculateHash([chain[i] EXCEPT !.signature = Undefined])
          /\ i > 1 => chain[i].previousHash = chain[i - 1].hash
          /\ i > 1 => chain[i].signature \in {Undefined, RsaSign(chain[i].hash)}

\* the verdicts genesis, confirmed.., invalid at position p (1-based), above invalid..;
\* p = len + 1 places no invalid
Cascade(len, p) ==
    [i \in 1..len |-> IF i = 1 THEN "genesis"
                      ELSE IF i < p THEN "confirmed"
                      ELSE IF i = p THEN "invalid" ELSE "above invalid"]

\* the signed variant's key decodes (the hash-only variant has no key)
KeyUsable == variant = "signed" => keyDecodes

\* C1: after a view of a chain built by appends alone, block 0 is labelled genesis
\* and every other block confirmed, in both variants
C1_AppendOnlyConfirmed ==
    (out.cmd = "view" /\ KeyUsable /\ AppendBuilt(blockchain))
        => out.labels = Cascade(Len(blockchain), Len(blockchain) + 1)

\* the chain is an append-built chain whose block at position p (1-based) had its
\* data overwritten with a different value
EditedAt(chain, p) ==
    /\ p \in 2..Len(chain)
    /\ \E d \in Data : d # chain[p].data /\ AppendBuilt([chain EXCEPT ![p].data = d])

\* C2: after block k of an append-built chain is edited in place, a view labels
\* blocks 1..k-1 confirmed, block k invalid and every later block above invalid
C2_EditDetected ==
    \A p \in 2..Len(blockchain) :
        (out.cmd = "view" /\ KeyUsable /\ EditedAt(blockchain, p))
            => out.labels = Cascade(Len(blockchain), p)

InsertAt(chain, p, b) ==
    [i \in 1..(Len(chain) + 1) |->
        IF i < p THEN chain[i] ELSE IF i = p THEN b ELSE chain[i - 1]]

\* the blocks addBlock can have appended after prev
Successors(prev) ==
    {generateNextBlock(prev, d, t) : d \in Data, t \in 0..MaxTime}
    \cup (IF variant = "hash" THEN {}
          ELSE {[generateNextBlock(prev, d, t) EXCEPT
                    !.signature = RsaSign(generateNextBlock(prev, d, t).hash)] :
                        d \in Data, t \in 0..MaxTime})

\* the chain is an append-built chain from which an interior block was removed; the
\* block that followed it now sits at position p (1-based)
RemovedAt(chain, p) ==
    /\ p \in 2..Len(chain)
    /\ \E b \in Successors(chain[p - 1]) : AppendBuilt(InsertAt(chain, p, b))

\* C3: after an interior block of an append-built chain is removed, a view labels
\* the blocks before the gap confirmed, the block after the gap invalid and the
\* rest above invalid
C3_RemovalCascade ==
    \A p \in 2..Len(blockchain) :
        (out.cmd = "view" /\ KeyUsable /\ RemovedAt(blockchain, p))
            => out.labels = Cascade(Len(blockchain), p)

\* genesis first, then confirmed.., then at most one invalid followed only by above invalid
VerdictShape(labels) ==
    \A i \in 1..Len(labels) :
        /\ (i = 1) <=> (labels[i] = "genesis")
        /\ labels[i] \in {"genesis", "confirmed", "invalid", "above invalid"}
        /\ labels[i] \in {"confirmed", "invalid"}
              => \A j \in 2..(i - 1) : labels[j] = "confirmed"
        /\ labels[i] = "above invalid"
              => i > 2 /\ labels[i - 1] \in {"invalid", "above invalid"}

\* C4: the labels one scan prints have the shape genesis, confirmed.., then
\* optionally one invalid followed only by above invalid; a scan that ends without an
\* exception has labelled every block
C4_VerdictShape ==
    /\ VerdictShape(out.labels)
    /\ (out.cmd = "view" /\ out.report = "ok") => Len(out.labels) = Len(blockchain)

\* a view has labelled a block above invalid although it names its predecessor's hash
C4_Witness ==
    /\ out.cmd = "view"
    /\ out.report = "ok"
    /\ \E i \in 3..Len(blockchain) :
          /\ out.labels[i] = "above invalid"
          /\ isPreviousBlock(blockchain[i], blockchain[i - 1])

\* C5: removeBlock and modifyBlock given an index that is no position of the chain
\* leave chain and snapshot as they were and report "Invalid index."
C5_InvalidIndexRejected ==
    [][((Runs("remove") \/ Runs("modify")) /\ ~IsPosition(out'.index, Len(blockchain)))
          => (blockchain' = blockchain /\ file' = file /\ out'.report = "Invalid index.")]_vars

IsVerifiedErrors ==
    {"isVerified: verifier.update after verify", "isVerified: createPublicKey",
     "isVerified: verify(undefined signature)"}

\* C6: isVerified never throws (also where the key decodes): no view ends with an
\* exception raised inside isVerified
C6_IsVerifiedNeverThrows == KeyUsable => out.report \notin IsVerifiedErrors

\* C7: when the signing request fails, or settles without a signature, addBlock
\* pushes no block and writes no snapshot
C7_FailedSigningAborts ==
    [][(pc = "signing" /\ (pc' = Crashed \/ Last(blockchain').signature = Undefined))
          => (blockchain' = blockchain /\ file' = file)]_vars

\* C8: a block just appended by addBlock has hash = calculateHash(block)
C8_AppendedHashMatches ==
    [][(pc \in {"menu", "signing"} /\ Len(blockchain') = Len(blockchain) + 1)
          => calculateHash(Last(blockchain')) = Last(blockchain').hash]_vars

\* C9: a view changes neither chain nor snapshot, and a view that follows a completed
\* view of the same chain in the same run completes with the same labels
C9_ViewRepeatable ==
    [][Runs("view")
          => /\ blockchain' = blockchain
             /\ file' = file
             /\ (out.cmd = "view" /\ out.report = "ok")
                    => (out'.report = "ok" /\ out'.labels = out.labels)]_vars

\* C10: the block at index 0 carries the genesis sentinel as previousHash
C10_GenesisFirst == Len(blockchain) >= 1 => blockchain[1].previousHash = Sentinel

\* C11: whenever the program waits at the menu prompt, blockchain.json holds exactly
\* the in-memory chain, block for block and field for field
C11_SnapshotMatchesChain == pc = "menu" => file = saveBlockchain(blockchain)

\* the menu is reached again after a removal that changed a chain of several blocks
C11_Witness ==
    /\ pc = "menu"
    /\ out.cmd = "remove"
    /\ out.report = "removed."
    /\ Len(blockchain) >= 2

\* C12: while a signing request is in flight no command is read and the chain does
\* not change, so the block is pushed onto the tail it was built on
C12_NoCommandWhileSigning ==
    [][pc = "signing"
          => /\ now' = now
             /\ newBlock.previousHash = Last(blockchain).hash
             /\ \/ blockchain' = blockchain
                \/ blockchain' = Append(blockchain,
                       [newBlock EXCEPT !.signature = Last(blockchain').signature])]_vars

\* a signing request is in flight on a chain that already holds appended blocks
C12_Witness == pc = "signing" /\ Len(blockchain) >= 2 /\ request = newBlock.hash

RequiredFields == {"previousHash", "timestamp", "data", "hash"}

\* C13: loadBlockchain returns a chain only when every record of the snapshot has
\* previousHash, timestamp, data and hash; a record lacking one makes the load fail
C13_MalformedSnapshotRejected ==
    (pc = "menu" /\ out.cmd = "load")
        => \A i \in 1..Len(file) : RequiredFields \subseteq DOMAIN file[i]

\* the step completes an addBlock command with a push
AddSucceeded ==
    \/ Runs("add") /\ out'.report = "Block added."
    \/ pc = "signing" /\ pc' = "menu"

\* C14: a successful addBlock makes the chain one longer, leaves every earlier block
\* as it was, and gives the new last block previousHash = the stored hash of the
\* block that was last before
C14_AppendLinksToStoredHash ==
    [][AddSucceeded
          => /\ Len(blockchain) >= 1
             /\ Len(blockchain') = Len(blockchain) + 1
             /\ \A i \in 1..Len(blockchain) : blockchain'[i] = blockchain[i]
             /\ Last(blockchain').previousHash = Last(blockchain).hash]_vars

\* a block has been appended after a block whose stored hash is stale
C14_Witness ==
    /\ out.cmd = "add"
    /\ out.report = "Block added."
    /\ Len(blockchain) >= 3
    /\ blockchain[Len(blockchain) - 1].hash # calculateHash(blockchain[Len(blockchain) - 1])
    /\ blockchain[Len(blockchain) - 1].signature = Undefined

\* C15: modifyBlock with a valid index k changes the data field of block k and
\* nothing else: not its hash, previousHash, timestamp or signature, not the length,
\* not any other block
C15_ModifyChangesOnlyData ==
    [][(Runs("modify") /\ IsPosition(out'.index, Len(blockchain)))
          => /\ Len(blockchain') = Len(blockchain)
             /\ \A i \in 1..Len(blockchain) :
                   blockchain'[i] = IF i = out'.index.n + 1
                                    THEN [blockchain[i] EXCEPT !.data = blockchain'[i].data]
                                    ELSE blockchain[i]]_vars

\* a block has been edited and its stored hash no longer matches its fields
C15_Witness ==
    /\ out.cmd = "modify"
    /\ out.report = "modified."
    /\ out.index.n >= 1
    /\ blockchain[out.index.n + 1].signature = Undefined
    /\ blockchain[out.index.n + 1].hash # calculateHash(blockchain[out.index.n + 1])

\* C16: saving the chain and loading it back gives the same chain, every field of
\* every block (the stored hash verbatim), and validation of the reloaded chain
\* prints what validation of the chain prints
C16_SaveLoadRoundTrip ==
    /\ loadBlockchain(saveBlockchain(blockchain)) = blockchain
    /\ printBlockchain(loadBlockchain(saveBlockchain(blockchain)), "open")
          = printBlockchain(blockchain, "open")

\* the program has been restarted on a snapshot that holds a block with a stale hash
C16_Witness ==
    /\ pc = "menu"
    /\ out.cmd = "load"
    /\ \E i \in 2..Len(blockchain) :
          /\ blockchain[i].signature = Undefined
          /\ blockchain[i].hash # calculateHash(blockchain[i])

\* C17: a block whose fields are as they were when sign() submitted its digest, and
\* which carries the arbiter's signature over that digest, passes isVerified
C17_HonestSignatureVerifies ==
    \A i \in 1..Len(blockchain) :
        (/\ variant = "signed"
         /\ keyDecodes
         /\ blockchain[i].hash = calculateHash([blockchain[i] EXCEPT !.signature = Undefined])
         /\ blockchain[i].signature = RsaSign(blockchain[i].hash))
            => isVerifiedSigned(blockchain[i], "open").value

\* C18: the chain never becomes empty, so addBlock always finds a predecessor and
\* never fails on an undefined previousBlock
C18_PredecessorDefined ==
    out.cmd = "add" => out.report # "generateNextBlock: previousBlock undefined"

====
